---------------------------- MODULE Spec2Model ----------------------------
(***************************************************************************)
(* Signing-order reconciliation of the "add signers" form                  *)
(* (packages/ui/primitives/document-flow/add-signers.tsx).                 *)
(*                                                                         *)
(* The form value `signers` is a list of entries.  The handlers of the     *)
(* component (add, add myself, remove, drag end, manual order edit and the *)
(* programmatic drag replay that follows a manual edit) are the actions.   *)
(* Indices are 0-based as in the source; Item(s, i) reads position i.      *)
(*                                                                         *)
(* The three views the component has of the list, `signers` (field array), *)
(* `watchedSigners` (watch) and form.getValues('signers'), are read as the *)
(* one current form value.                                                 *)
(***************************************************************************)
EXTENDS Integers, Sequences, FiniteSets, TLC

VARIABLES
    signers,                  \* the form value 'signers': Seq of entries
    modifiable,               \* ids of `recipients` that utilCanRecipientBeModified accepts
    recipientIds,             \* ids of the `recipients` prop
    sensorApi,                \* $sensorApi.current !== null
    drag,                     \* the drag surface's lock: the replay in flight, if any
    ops,                      \* history: number of user operations handled so far
    lastOp                    \* history: the handler that ran last, with its arguments

vars == <<signers, modifiable, recipientIds, sensorApi, drag, ops, lastOp>>

---------------------------------------------------------------------------
(* Bounds of the model *)

MaxRecipients == 3
MaxSigners == 3
MaxOps == 2

---------------------------------------------------------------------------
(* Entries *)

\* nativeId of an entry that was created in the form (nativeId: undefined)
NoNativeId == 0

Min(a, b) == IF a < b THEN a ELSE b
Max(a, b) == IF a > b THEN a ELSE b

Item(s, i) == s[i + 1]

Indices(s) == 0..(Len(s) - 1)

\* Array.prototype.splice(i, 1): the list without position i
SpliceOut(s, i) ==
    [k \in 1..(Len(s) - 1) |-> IF k < i + 1 THEN s[k] ELSE s[k + 1]]

\* mutant of SpliceIn: the element is put behind the last one
SpliceAtEnd(s, i, e) == Append(s, e)

\* Array.prototype.splice(i, 0, e): e inserted at position i (clamped to the end)
SpliceIn(s, i, e) ==
    LET at == Min(i, Len(s))
    IN  [k \in 1..(Len(s) + 1) |->
            IF k < at + 1 THEN s[k] ELSE IF k = at + 1 THEN e ELSE s[k - 1]]

\* mutant of canRecipientBeModified: an entry without nativeId is looked up too
canRecipientBeModifiedNoDefault(nativeId) ==
    IF nativeId \notin recipientIds THEN FALSE ELSE nativeId \in modifiable

\* canRecipientBeModified(recipientId)
canRecipientBeModified(nativeId) ==
    IF nativeId = NoNativeId
    THEN TRUE
    ELSE IF nativeId \notin recipientIds
         THEN FALSE
         ELSE nativeId \in modifiable

Locked(e) == ~canRecipientBeModified(e.nativeId)

---------------------------------------------------------------------------
(* normalizeSigningOrders: stable sort by signingOrder, then 1..N *)

\* number of entries that a stable ascending sort puts before position k (1-based)
Before(s, k) ==
    Cardinality({j \in 1..Len(s) :
        \/ s[j].signingOrder < s[k].signingOrder
        \/ (s[j].signingOrder = s[k].signingOrder /\ j < k)})

SortBySigningOrder(s) ==
    [p \in 1..Len(s) |-> s[CHOOSE k \in 1..Len(s) : Before(s, k) = p - 1]]

\* mutant of normalizeSigningOrders: the sort is left out
renumberInPlace(s) == [p \in 1..Len(s) |-> [s[p] EXCEPT !.signingOrder = p]]

normalizeSigningOrders(s) ==
    LET sorted == SortBySigningOrder(s)
    IN  [p \in 1..Len(s) |-> [sorted[p] EXCEPT !.signingOrder = p]]

---------------------------------------------------------------------------
(* The text typed into the order field: a sequence of characters *)

Digits == <<"0", "1", "2", "3", "4", "5", "6", "7", "8", "9">>

IsDigit(c) == \E d \in 1..Len(Digits) : Digits[d] = c

DigitValue(c) == (CHOOSE d \in 1..Len(Digits) : Digits[d] = c) - 1

IsSpace(c) == c = " "

RECURSIVE TrimStart(_)
TrimStart(str) ==
    IF str # <<>> /\ IsSpace(Head(str)) THEN TrimStart(Tail(str)) ELSE str

RECURSIVE TrimEnd(_)
TrimEnd(str) ==
    IF str # <<>> /\ IsSpace(str[Len(str)])
    THEN TrimEnd(SubSeq(str, 1, Len(str) - 1))
    ELSE str

\* String.prototype.trim
Trim(str) == TrimEnd(TrimStart(str))

\* the value of the longest prefix of digits of str, read after acc
RECURSIVE ReadDigits(_, _)
ReadDigits(str, acc) ==
    IF str # <<>> /\ IsDigit(Head(str))
    THEN ReadDigits(Tail(str), 10 * acc + DigitValue(Head(str)))
    ELSE acc

\* parseInt(str, 10): leading white space skipped, an optional sign, then the
\* longest prefix of digits; NaN when there is no digit
parseInt(str) ==
    LET s0 == TrimStart(str)
        negative == s0 # <<>> /\ Head(s0) = "-"
        s1 == IF s0 # <<>> /\ Head(s0) \in {"-", "+"} THEN Tail(s0) ELSE s0
    IN  IF s1 = <<>> \/ ~IsDigit(Head(s1))
        THEN [nan |-> TRUE, value |-> 0]
        ELSE [nan |-> FALSE,
              value |-> IF negative THEN 0 - ReadDigits(s1, 0) ELSE ReadDigits(s1, 0)]

\* the decimal text of a number, as the browser hands it to the handler
RECURSIVE NatText(_)
NatText(n) ==
    IF n < 10 THEN <<Digits[n + 1]>> ELSE NatText(n \div 10) \o <<Digits[(n % 10) + 1]>>

IntText(n) == IF n < 0 THEN <<"-">> \o NatText(0 - n) ELSE NatText(n)

\* the largest number typed: one more than the longest list has entries
MaxTyped == MaxSigners + 1

\* the texts a user types: empty, blank, not a number, numbers with white space
\* or a trailing letter, and every number from 0 to MaxTyped
TypedTexts ==
    {<<>>, <<" ">>, <<"a", "b", "c">>, <<" ", "2">>, <<"1", "a">>}
        \cup {IntText(n) : n \in 0..MaxTyped}

---------------------------------------------------------------------------
(* State after construction *)

\* recipients.map(...) of defaultValues for the `recipients` prop: n persisted
\* recipients with ids 1..n, whose signing orders are 1..n in some order
\* (`order`), or not set in the database: recipient.signingOrder ?? index + 1
RecipientEntries(n, order) ==
    [index \in 1..n |->
        [formId |-> index, nativeId |-> index, signingOrder |-> order[index],
         email |-> "other"]]

\* the signing orders of the prop: as stored by an earlier session of the form
\* (ascending or descending in id), or all unset
RecipientOrders(n) == {[index \in 1..n |-> index], [index \in 1..n |-> n + 1 - index]}

\* sortBy(..., [prop('signingOrder'), 'asc'], [prop('nativeId'), 'asc']): the
\* entries arrive in ascending nativeId, so the stable sort breaks ties by nativeId
sortBy(s) == SortBySigningOrder(s)

\* defaultRecipients: one blank entry with order 1 and no nativeId
defaultRecipients ==
    <<[formId |-> MaxRecipients + 1, nativeId |-> NoNativeId, signingOrder |-> 1,
       email |-> ""]>>

Idle == [phase |-> "idle", id |-> 0, from |-> 0, to |-> 0, pos |-> 0, moves |-> <<>>]

\* history record of a handler run: the handler, its position argument, its
\* second argument (destination index, typed number) and the branch it took
Op(op, index, target, kind) ==
    [op |-> op, index |-> index, target |-> target, kind |-> kind]

Init ==
    /\ \E n \in 0..MaxRecipients :
          /\ recipientIds = 1..n
          /\ \E m \in SUBSET (1..n) : modifiable = m
          /\ IF n > 0
             THEN \E order \in RecipientOrders(n) :
                      signers = sortBy(RecipientEntries(n, order))
             ELSE signers = defaultRecipients
    /\ sensorApi = FALSE
    /\ drag = Idle
    /\ ops = 0
    /\ lastOp = Op("init", 0, 0, "")

---------------------------------------------------------------------------
(* Add, add myself, remove *)

\* the signingOrder given to an appended entry
NextSigningOrder(s) ==
    IF Len(s) > 0 THEN Item(s, Len(s) - 1).signingOrder + 1 ELSE 1

\* nanoid(12): an identity no entry of the list has
nanoid(s) ==
    CHOOSE id \in (MaxRecipients + 1)..(MaxRecipients + MaxSigners + 1) :
        /\ \A k \in 1..Len(s) : s[k].formId # id
        /\ \A smaller \in (MaxRecipients + 1)..(id - 1) :
              \E k \in 1..Len(s) : s[k].formId = smaller

\* appendSigner({formId: nanoid(12), ..., signingOrder: ...})
appendSigner(s, email) ==
    Append(s, [formId |-> nanoid(s), nativeId |-> NoNativeId,
               signingOrder |-> NextSigningOrder(s), email |-> email])

\* the list has room for one more entry (signers.length < remaining.recipients)
CanAppend == Len(signers) < MaxSigners

onAddSigner ==
    /\ ops < MaxOps
    /\ ops' = ops + 1
    /\ CanAppend
    /\ signers' = appendSigner(signers, "")
    /\ lastOp' = Op("add", Len(signers), 0, "append")
    /\ UNCHANGED <<modifiable, recipientIds, sensorApi, drag>>

\* watchedSigners.findIndex((signer) => !signer.name && !signer.email), or -1
emptySignerIndex ==
    IF \E i \in Indices(signers) : Item(signers, i).email = ""
    THEN CHOOSE i \in Indices(signers) :
            /\ Item(signers, i).email = ""
            /\ \A j \in Indices(signers) : j < i => Item(signers, j).email # ""
    ELSE 0 - 1

isUserAlreadyARecipient == \E i \in Indices(signers) : Item(signers, i).email = "self"

\* mutant of onAddSelfSigner: a blank entry is not looked for
onAddSelfSignerAppendOnly ==
    /\ ops < MaxOps
    /\ ops' = ops + 1
    /\ ~isUserAlreadyARecipient
    /\ CanAppend
    /\ signers' = appendSigner(signers, "self")
    /\ lastOp' = Op("addSelf", Len(signers), 0, "append")
    /\ UNCHANGED <<modifiable, recipientIds, sensorApi, drag>>

onAddSelfSigner ==
    /\ ops < MaxOps
    /\ ops' = ops + 1
    /\ ~isUserAlreadyARecipient
    /\ IF emptySignerIndex # 0 - 1
       THEN /\ signers' = [signers EXCEPT ![emptySignerIndex + 1].email = "self"]
            /\ lastOp' = Op("addSelf", emptySignerIndex, 0, "fill")
       ELSE /\ CanAppend
            /\ signers' = appendSigner(signers, "self")
            /\ lastOp' = Op("addSelf", Len(signers), 0, "append")
    /\ UNCHANGED <<modifiable, recipientIds, sensorApi, drag>>

\* signers.filter((_, idx) => idx !== index)
removeSigner(s, index) == SpliceOut(s, index)

\* snapshot.isDragging of the Draggable at position index
isDragging(index) == drag.phase # "idle" /\ drag.id = Item(signers, index).formId

\* mutant of onRemoveSigner: the lock check is left out
onRemoveSignerUnchecked(index) ==
    /\ ops < MaxOps
    /\ ops' = ops + 1
    /\ Len(signers) # 1
    /\ ~isDragging(index)
    /\ signers' = normalizeSigningOrders(removeSigner(signers, index))
    /\ lastOp' = Op("remove", index, 0, "removed")
    /\ UNCHANGED <<modifiable, recipientIds, sensorApi, drag>>

\* mutant of onRemoveSigner: the button is live on a single entry as well
onRemoveSignerOfAny(index) ==
    /\ ops < MaxOps
    /\ ops' = ops + 1
    /\ ~isDragging(index)
    /\ IF ~canRecipientBeModified(Item(signers, index).nativeId)
       THEN /\ lastOp' = Op("remove", index, 0, "toast")
            /\ UNCHANGED signers
       ELSE /\ signers' = normalizeSigningOrders(removeSigner(signers, index))
            /\ lastOp' = Op("remove", index, 0, "removed")
    /\ UNCHANGED <<modifiable, recipientIds, sensorApi, drag>>

\* the remove button is disabled while a single entry remains and on the entry
\* being dragged; the handler itself rejects a locked entry with a toast
onRemoveSigner(index) ==
    /\ ops < MaxOps
    /\ ops' = ops + 1
    /\ Len(signers) # 1
    /\ ~isDragging(index)
    /\ IF ~canRecipientBeModified(Item(signers, index).nativeId)
       THEN /\ lastOp' = Op("remove", index, 0, "toast")
            /\ UNCHANGED signers
       ELSE /\ signers' = normalizeSigningOrders(removeSigner(signers, index))
            /\ lastOp' = Op("remove", index, 0, "removed")
    /\ UNCHANGED <<modifiable, recipientIds, sensorApi, drag>>

---------------------------------------------------------------------------
(* Drag end *)

\* mutant of insertIndexFrom: the locked entries are not stepped over
insertIndexAsGiven(items, insertIndex) == insertIndex

\* while (insertIndex < items.length && !canRecipientBeModified(items[insertIndex].nativeId))
\*   insertIndex++
RECURSIVE insertIndexFrom(_, _)
insertIndexFrom(items, insertIndex) ==
    IF insertIndex < Len(items) /\ ~canRecipientBeModified(Item(items, insertIndex).nativeId)
    THEN insertIndexFrom(items, insertIndex + 1)
    ELSE insertIndex

\* mutant of renumberUnlocked: the lock is not consulted
renumberAll(items) == [k \in 1..Len(items) |-> [items[k] EXCEPT !.signingOrder = k]]

\* items.map((item, index) => ({...item, signingOrder: locked ? item.signingOrder : index + 1}))
renumberUnlocked(items) ==
    [k \in 1..Len(items) |->
        IF ~canRecipientBeModified(items[k].nativeId)
        THEN items[k]
        ELSE [items[k] EXCEPT !.signingOrder = k]]

\* mutant of reorderedSigners: the entry taken out is not put back
reorderedWithoutInsert(s, source, destination) ==
    IF source \notin Indices(s) THEN s ELSE renumberUnlocked(SpliceOut(s, source))

\* the list onDragEnd writes to the form for a result with a destination.  A
\* source outside the list makes the handler throw before it writes anything.
reorderedSigners(s, source, destination) ==
    IF source \notin Indices(s)
    THEN s
    ELSE LET reorderedSigner == Item(s, source)
             items == SpliceOut(s, source)
             insertIndex == insertIndexFrom(items, destination)
         IN  renumberUnlocked(SpliceIn(items, insertIndex, reorderedSigner))

\* the form is in sequential signing mode, the mode in which the order field
\* and the drag handles are live
isSigningOrderSequential == TRUE

\* isDragDisabled of the Draggable at position index
isDragDisabled(index) ==
    \/ ~isSigningOrderSequential
    \/ ~canRecipientBeModified(Item(signers, index).nativeId)
    \/ Item(signers, index).signingOrder = 0

\* mutant of onDragEnd: a result without destination is reordered as well
onDragEndAnywhere(source, hasDestination, destination) ==
    /\ ops < MaxOps
    /\ ops' = ops + 1
    /\ drag.phase = "idle"
    /\ ~isDragDisabled(source)
    /\ signers' = reorderedSigners(signers, source, destination)
    /\ lastOp' = Op("drag", source, destination,
                    IF hasDestination THEN "dropped" ELSE "noDestination")
    /\ UNCHANGED <<modifiable, recipientIds, sensorApi, drag>>

\* a drag gesture of the user, ended on destination index `destination`, or
\* outside of any droppable (hasDestination = FALSE)
onDragEnd(source, hasDestination, destination) ==
    /\ ops < MaxOps
    /\ ops' = ops + 1
    /\ drag.phase = "idle"
    /\ ~isDragDisabled(source)
    /\ IF ~hasDestination
       THEN /\ lastOp' = Op("drag", source, 0, "noDestination")
            /\ UNCHANGED signers
       ELSE /\ signers' = reorderedSigners(signers, source, destination)
            /\ lastOp' = Op("drag", source, destination, "dropped")
    /\ UNCHANGED <<modifiable, recipientIds, sensorApi, drag>>

---------------------------------------------------------------------------
(* Manual order edit *)

\* mutant of updateSigningOrders: the entries of the range are shifted, locked
\* or not
updateSigningOrdersOfAll(s, newIndex, oldIndex) ==
    [k \in 1..Len(s) |->
        LET index == k - 1
            signer == s[k]
        IN  IF index = oldIndex
            THEN [signer EXCEPT !.signingOrder = newIndex + 1]
            ELSE IF index >= newIndex /\ index < oldIndex
            THEN [signer EXCEPT !.signingOrder = signer.signingOrder + 1]
            ELSE IF index <= newIndex /\ index > oldIndex
            THEN [signer EXCEPT !.signingOrder = Max(1, signer.signingOrder - 1)]
            ELSE signer]

\* mutant of updateSigningOrders: the edited entry alone gets a new order
updateSigningOrdersOfOne(s, newIndex, oldIndex) ==
    [k \in 1..Len(s) |->
        IF k - 1 = oldIndex THEN [s[k] EXCEPT !.signingOrder = newIndex + 1] ELSE s[k]]

\* form.getValues('signers').map(...) of updateSigningOrders(newIndex, oldIndex)
updateSigningOrders(s, newIndex, oldIndex) ==
    [k \in 1..Len(s) |->
        LET index == k - 1
            signer == s[k]
        IN  IF index = oldIndex
            THEN [signer EXCEPT !.signingOrder = newIndex + 1]
            ELSE IF index >= newIndex /\ index < oldIndex
            THEN [signer EXCEPT !.signingOrder =
                     IF ~canRecipientBeModified(signer.nativeId)
                     THEN signer.signingOrder
                     ELSE signer.signingOrder + 1]
            ELSE IF index <= newIndex /\ index > oldIndex
            THEN [signer EXCEPT !.signingOrder =
                     IF ~canRecipientBeModified(signer.nativeId)
                     THEN signer.signingOrder
                     ELSE Max(1, signer.signingOrder - 1)]
            ELSE signer]

\* mutant of tryGetLock: a lock is handed out while another one is held
tryGetLockAlways(fromIndex) == ~isDragDisabled(fromIndex)

\* $sensorApi.current.tryGetLock(draggableId) returns a lock: the surface is
\* idle and the Draggable is enabled
tryGetLock(fromIndex) ==
    /\ drag.phase = "idle"
    /\ ~isDragDisabled(fromIndex)

\* mutant of triggerDragAndDrop: the entry is lifted whatever the surface says
liftUnconditionally(fromIndex, toIndex) ==
    [phase |-> "lifted", id |-> Item(signers, fromIndex).formId,
     from |-> fromIndex, to |-> toIndex, pos |-> fromIndex, moves |-> <<>>]

\* the lock state triggerDragAndDrop(fromIndex, toIndex) leaves: snapLift when
\* the sensor API is there and the lock is granted, nothing otherwise
triggerDragAndDrop(fromIndex, toIndex) ==
    IF ~sensorApi
    THEN drag
    ELSE IF ~tryGetLock(fromIndex)
    THEN drag
    ELSE [phase |-> "lifted", id |-> Item(signers, fromIndex).formId,
          from |-> fromIndex, to |-> toIndex, pos |-> fromIndex, moves |-> <<>>]

\* the order input of the entry at position index is rendered and enabled
orderInputEnabled(index) ==
    /\ isSigningOrderSequential
    /\ canRecipientBeModified(Item(signers, index).nativeId)
    /\ ~isDragging(index)

handleSigningOrderChange(index, newOrderString) ==
    LET newOrder == parseInt(newOrderString)
        newIndex == newOrder.value - 1
    IN  /\ ops < MaxOps
        /\ ops' = ops + 1
        /\ orderInputEnabled(index)
        /\ IF Trim(newOrderString) = <<>>
           THEN /\ lastOp' = Op("edit", index, 0, "empty")
                /\ UNCHANGED <<signers, drag>>
           ELSE IF newOrder.nan
           THEN /\ signers' = [signers EXCEPT ![index + 1].signingOrder = index + 1]
                /\ lastOp' = Op("edit", index, 0, "NaN")
                /\ UNCHANGED drag
           ELSE IF index # newIndex
           THEN /\ signers' = updateSigningOrders(signers, newIndex, index)
                /\ drag' = triggerDragAndDrop(index, newIndex)
                /\ lastOp' = Op("edit", index, newOrder.value,
                                IF drag' = drag THEN "shiftOnly" ELSE "shiftAndLift")
           ELSE /\ lastOp' = Op("edit", index, newOrder.value, "same")
                /\ UNCHANGED <<signers, drag>>
        /\ UNCHANGED <<modifiable, recipientIds, sensorApi>>

---------------------------------------------------------------------------
(* The replay of a manual edit on the drag surface *)

\* the position of the lifted item after one moveDown / moveUp of the surface
movedDown(pos) == Min(pos + 1, Len(signers) - 1)
movedUp(pos) == Max(pos - 1, 0)

RECURSIVE moveTimes(_, _, _)
moveTimes(pos, n, down) ==
    IF n = 0 THEN pos
    ELSE moveTimes(IF down THEN movedDown(pos) ELSE movedUp(pos), n - 1, down)

\* mutant of replayMove: one step is issued whatever the distance
replayMoveOneStep ==
    /\ drag.phase = "lifted"
    /\ LET down == drag.from < drag.to
       IN  drag' = [drag EXCEPT
                       !.phase = "moved",
                       !.pos = moveTimes(drag.pos, 1, down),
                       !.moves = <<IF down THEN "moveDown" ELSE "moveUp">>]
    /\ lastOp' = Op("replayMove", drag.from, drag.to, "")
    /\ UNCHANGED <<signers, modifiable, recipientIds, sensorApi, ops>>

\* the first timer of triggerDragAndDrop: every step of the move, at once
replayMove ==
    /\ drag.phase = "lifted"
    /\ LET down == drag.from < drag.to
           n == IF down THEN drag.to - drag.from ELSE drag.from - drag.to
       IN  drag' = [drag EXCEPT
                       !.phase = "moved",
                       !.pos = moveTimes(drag.pos, n, down),
                       !.moves = [k \in 1..n |-> IF down THEN "moveDown" ELSE "moveUp"]]
    /\ lastOp' = Op("replayMove", drag.from, drag.to, "")
    /\ UNCHANGED <<signers, modifiable, recipientIds, sensorApi, ops>>

\* the second timer: drag.drop(), which the surface hands to onDragEnd with
\* the lifted item's home index and the index it was moved to
replayDrop ==
    /\ drag.phase = "moved"
    /\ signers' = reorderedSigners(signers, drag.from, drag.pos)
    /\ drag' = Idle
    /\ lastOp' = Op("replayDrop", drag.from, drag.pos, "")
    /\ UNCHANGED <<modifiable, recipientIds, sensorApi, ops>>

---------------------------------------------------------------------------
(* The rest of the form *)

\* the sensor handed to DragDropContext stores the sensor API
sensorMount ==
    /\ ~sensorApi
    /\ sensorApi' = TRUE
    /\ lastOp' = Op("mount", 0, 0, "")
    /\ UNCHANGED <<signers, modifiable, recipientIds, drag, ops>>

---------------------------------------------------------------------------

Next ==
    \/ onAddSigner
    \/ onAddSelfSigner
    \/ \E index \in Indices(signers) : onRemoveSigner(index)
    \/ \E source \in Indices(signers), destination \in Indices(signers) :
          onDragEnd(source, TRUE, destination)
    \/ \E source \in Indices(signers) : onDragEnd(source, FALSE, 0)
    \/ \E index \in Indices(signers), text \in TypedTexts :
          handleSigningOrderChange(index, text)
    \/ replayMove
    \/ replayDrop
    \/ sensorMount

Spec == Init /\ [][Next]_vars

---------------------------------------------------------------------------
(* Vocabulary of the properties *)

FormIds(s) == {s[k].formId : k \in 1..Len(s)}

\* position (0-based) and signing order of the entry with identity id
PositionOf(s, id) == (CHOOSE k \in 1..Len(s) : s[k].formId = id) - 1
OrderOf(s, id) == Item(s, PositionOf(s, id)).signingOrder

OrderValues(s) == {s[k].signingOrder : k \in 1..Len(s)}

LockedIds(s) == {s[k].formId : k \in {j \in 1..Len(s) : Locked(s[j])}}

\* the step just taken ran one of the handlers that add or reorder
IsAddStep == lastOp'.op \in {"add", "addSelf"}
IsDragStep == lastOp'.op \in {"drag", "replayDrop"}
IsEditStep == lastOp'.op = "edit"
IsRemoveStep == lastOp'.op = "remove"

\* the manual edit just handled had a number as its typed value
EditWasNumeric == lastOp'.op = "edit" /\ lastOp'.kind \in {"same", "shiftOnly", "shiftAndLift"}

---------------------------------------------------------------------------
(* C1: after every completed operation the order values of the N entries   *)
(* present are exactly 1..N, each used once.                               *)
C1_OrdersAreOneToN == OrderValues(signers) = 1..Len(signers)

(* C2: add, add myself, drag and manual order edit leave the order value   *)
(* of every locked entry as it was before the operation.                   *)
C2_LockedOrderKept ==
    [][(IsAddStep \/ IsDragStep \/ IsEditStep) =>
          \A id \in LockedIds(signers) :
              /\ id \in FormIds(signers')
              /\ OrderOf(signers', id) = OrderOf(signers, id)]_vars

\* a drag or a shifting edit has run on a list that holds a locked entry
\* between unlocked ones that were renumbered
C2_Witness ==
    /\ lastOp.op \in {"drag", "edit"}
    /\ lastOp.kind \in {"dropped", "shiftOnly", "shiftAndLift"}
    /\ Len(signers) = 3
    /\ LockedIds(signers) # {}
    /\ \E k \in 1..Len(signers) : ~Locked(signers[k]) /\ signers[k].signingOrder # k

(* C3: a drag of an unlocked entry never changes the list position of a    *)
(* locked entry.                                                           *)
C3_LockedPositionKept ==
    [][(lastOp'.op = "drag") =>
          \A id \in LockedIds(signers) :
              PositionOf(signers', id) = PositionOf(signers, id)]_vars

(* C4: orders [1,2,3], only position 1 locked, drag position 0 to          *)
(* destination 1: the locked entry stays at position 1 with order 2, the   *)
(* dragged entry is at position 2 with order 3, the third entry is at      *)
(* position 0 with order 1.                                                *)
C4_Scenario ==
    [][(/\ Len(signers) = 3
        /\ \A k \in 1..3 : signers[k].signingOrder = k
        /\ Locked(signers[2]) /\ ~Locked(signers[1]) /\ ~Locked(signers[3])
        /\ lastOp' = Op("drag", 0, 1, "dropped"))
       =>
       (/\ signers'[2].formId = signers[2].formId /\ signers'[2].signingOrder = 2
        /\ signers'[3].formId = signers[1].formId /\ signers'[3].signingOrder = 3
        /\ signers'[1].formId = signers[3].formId /\ signers'[1].signingOrder = 1)]_vars

(* C5: a manual order edit whose typed value is not a number, or is 0,     *)
(* leaves the order of the edited entry and of every other entry as it was.*)
C5_InvalidEditReverts ==
    [][(/\ lastOp'.op = "edit"
        /\ \/ lastOp'.kind = "NaN"
           \/ (EditWasNumeric /\ lastOp'.target = 0))
       =>
       \A k \in 1..Len(signers) :
           /\ Len(signers') = Len(signers)
           /\ signers'[k].signingOrder = signers[k].signingOrder]_vars

(* C6: a manual order edit whose typed value is the edited entry's own     *)
(* current order value changes no order value and no list position.        *)
C6_OwnOrderIsNoOp ==
    [][(/\ EditWasNumeric
        /\ lastOp'.target = Item(signers, lastOp'.index).signingOrder)
       => signers' = signers]_vars

(* C7: removing an unlocked entry from N entries leaves the N-1 others,    *)
(* with order values 1..N-1 in list order, listed by ascending previous    *)
(* order value, ties in previous list order; locked ones are renumbered too*)
C7_RemoveNormalizes ==
    [][(lastOp'.op = "remove" /\ lastOp'.kind = "removed") =>
          LET removed == Item(signers, lastOp'.index).formId
          IN  /\ Len(signers') = Len(signers) - 1
              /\ FormIds(signers') = FormIds(signers) \ {removed}
              /\ \A p \in 1..Len(signers') : signers'[p].signingOrder = p
              /\ \A p, q \in 1..Len(signers') :
                    p < q =>
                       LET a == signers'[p].formId
                           b == signers'[q].formId
                       IN  \/ OrderOf(signers, a) < OrderOf(signers, b)
                           \/ /\ OrderOf(signers, a) = OrderOf(signers, b)
                              /\ PositionOf(signers, a) < PositionOf(signers, b)]_vars

\* an unlocked entry was removed from three, and the locked recipient 3,
\* whose order was 3, is now numbered 2
C7_Witness ==
    /\ lastOp.op = "remove" /\ lastOp.kind = "removed"
    /\ ops = 1
    /\ Len(signers) = 2
    /\ \E k \in 1..Len(signers) :
          Locked(signers[k]) /\ signers[k].nativeId = 3 /\ signers[k].signingOrder = 2

(* C8: a remove request for a locked entry raises the rejection toast and  *)
(* leaves the list as it was.                                              *)
C8_LockedRemoveRejected ==
    [][(lastOp'.op = "remove" /\ Locked(Item(signers, lastOp'.index))) =>
          (lastOp'.kind = "toast" /\ signers' = signers)]_vars

\* the handler has rejected the removal of a locked entry of a longer list
C8_Witness ==
    /\ lastOp.op = "remove" /\ lastOp.kind = "toast"
    /\ Len(signers) >= 2
    /\ Locked(Item(signers, lastOp.index))

SetMax(S) == CHOOSE m \in S : \A x \in S : x <= m

(* C9: add (and add myself, when it appends) gives the new entry the       *)
(* largest order value of the list plus one and leaves the others as they  *)
(* were.                                                                   *)
C9_AppendedOrderIsMaxPlusOne ==
    [][(IsAddStep /\ lastOp'.kind = "append") =>
          /\ Len(signers') = Len(signers) + 1
          /\ SubSeq(signers', 1, Len(signers)) = signers
          /\ signers'[Len(signers')].signingOrder =
                IF Len(signers) = 0 THEN 1 ELSE SetMax(OrderValues(signers)) + 1]_vars

(* C10: with no locked entry, dragging an entry from position i to         *)
(* position j and then back from j to i restores every entry's order value.*)
(* Stated of every state in which the user can start the drag; the two     *)
(* drags are computed as onDragEnd computes them.                          *)
C10_DragRoundTrip ==
    \A i, j \in Indices(signers) :
        (LockedIds(signers) = {} /\ drag.phase = "idle" /\ ~isDragDisabled(i)) =>
            LET there == reorderedSigners(signers, i, j)
                back == reorderedSigners(there, j, i)
            IN  \A id \in FormIds(signers) : OrderOf(back, id) = OrderOf(signers, id)

\* four entries created in the form (none persisted, so none locked) with
\* order values 1, 2, 3, 4
FourUnlocked ==
    [k \in 1..4 |->
        [formId |-> MaxRecipients + k, nativeId |-> NoNativeId, signingOrder |-> k,
         email |-> "other"]]

(* C11: after a drag that ends on a destination every unlocked entry's     *)
(* order value is its list position plus one; with no locked entry the     *)
(* dragged entry is at the destination position d with order d + 1 and the *)
(* other entries keep their relative order; and for four unlocked entries  *)
(* [1,2,3,4], drag 0 to 2, the entries first at positions 1, 2, 0, 3 get   *)
(* orders 1, 2, 3, 4.                                                      *)
C11_DragRenumbersByPosition ==
    [][(lastOp'.op = "drag" /\ lastOp'.kind = "dropped") =>
          LET s == lastOp'.index
              d == lastOp'.target
              dragged == Item(signers, s).formId
              result == reorderedSigners(FourUnlocked, 0, 2)
          IN  /\ \A k \in 1..Len(signers') :
                    ~Locked(signers'[k]) => signers'[k].signingOrder = k
              /\ LockedIds(signers) = {} =>
                    /\ PositionOf(signers', dragged) = d
                    /\ OrderOf(signers', dragged) = d + 1
                    /\ \A a, b \in FormIds(signers) \ {dragged} :
                          PositionOf(signers, a) < PositionOf(signers, b)
                              => PositionOf(signers', a) < PositionOf(signers', b)
              /\ [k \in 1..4 |-> result[k].formId] =
                    <<FourUnlocked[2].formId, FourUnlocked[3].formId,
                      FourUnlocked[1].formId, FourUnlocked[4].formId>>
              /\ [k \in 1..4 |-> result[k].signingOrder] = <<1, 2, 3, 4>>]_vars

\* the user has dragged the first of three unlocked entries to the last
\* position: it is last with order 3, the others moved up
C11_Witness ==
    /\ lastOp = Op("drag", 0, 2, "dropped")
    /\ Len(signers) = 3
    /\ LockedIds(signers) = {}
    /\ [k \in 1..3 |-> signers[k].signingOrder] = <<1, 2, 3>>
    /\ signers[3].formId = 1 /\ signers[1].formId = 2 /\ signers[2].formId = 3

\* the order values of the unlocked entries of s, read by list position,
\* never decrease
UnlockedOrdersAscend(s) ==
    \A p, q \in 1..Len(s) :
        (p < q /\ ~Locked(s[p]) /\ ~Locked(s[q])) => s[p].signingOrder <= s[q].signingOrder

(* C12: after every completed add, remove, drag or manual order edit the   *)
(* order values read by list position, locked entries skipped, are         *)
(* monotonically non-decreasing.                                           *)
C12_PositionAndOrderAgree ==
    [][(IsAddStep \/ IsRemoveStep \/ lastOp'.op = "drag" \/ IsEditStep) =>
          UnlockedOrdersAscend(signers')]_vars

\* the step just taken was a step of the replay of a manual edit
IsReplayStep == lastOp'.op \in {"replayMove", "replayDrop"}

(* C13: the order values a manual order edit assigns are final: no step of *)
(* the replay it starts, the drop that reaches the drag-end handler        *)
(* included, changes the order value of any entry.                         *)
C13_ReplayKeepsOrders ==
    [][IsReplayStep =>
          \A id \in FormIds(signers) :
              /\ id \in FormIds(signers')
              /\ OrderOf(signers', id) = OrderOf(signers, id)]_vars

\* a replay is in flight: its lock was taken and its drop has not run yet
InFlight == drag.phase # "idle"

\* the manual edit just handled ran updateSigningOrders
EditShifted == lastOp'.op = "edit" /\ lastOp'.kind \in {"shiftOnly", "shiftAndLift"}

(* C14: one replay at most holds the lock of the drag surface.  A manual   *)
(* order edit handled while a replay is in flight writes its order values  *)
(* at once and starts no replay of its own (no lift, step or drop, nothing *)
(* queued); the replay in flight is not cancelled: only its own timers     *)
(* advance it, each of them stays due, and its drop releases the lock, so  *)
(* that the drop is issued once.                                           *)
C14_OneReplayAtATime ==
    /\ [][/\ (InFlight /\ EditShifted) =>
                /\ signers' = updateSigningOrders(signers, lastOp'.target - 1, lastOp'.index)
                /\ drag' = drag
          /\ (InFlight /\ drag' # drag) =>
                \/ /\ lastOp'.op = "replayMove"
                   /\ drag.phase = "lifted" /\ drag'.phase = "moved"
                   /\ drag'.id = drag.id /\ drag'.from = drag.from /\ drag'.to = drag.to
                \/ /\ lastOp'.op = "replayDrop"
                   /\ drag.phase = "moved" /\ drag' = Idle
          /\ (~InFlight /\ drag' # drag) =>
                /\ lastOp'.op = "edit"
                /\ drag'.phase = "lifted"
                /\ drag'.id = Item(signers, lastOp'.index).formId]_vars
    /\ [](/\ drag.phase = "lifted" => ENABLED replayMove
          /\ drag.phase = "moved" => ENABLED replayDrop)

\* a second manual edit, of another entry, was handled after the steps of a
\* replay and before its drop: the orders were shifted and the replay in
\* flight is still the first one
C14_Witness ==
    /\ lastOp.op = "edit" /\ lastOp.kind = "shiftOnly"
    /\ sensorApi
    /\ drag.phase = "moved"
    /\ drag.id # Item(signers, lastOp.index).formId
    /\ ~isDragDisabled(lastOp.index)

(* C15: when the replay of a manual order edit cannot take the lock (no    *)
(* sensor API, surface busy, or entry not draggable) it lifts nothing and  *)
(* issues no step and no drop, the handler returns without an error, and   *)
(* the order values the edit has set are in the model.                     *)
C15_SkippedReplayKeepsEdit ==
    [][(/\ EditShifted
        /\ \/ ~sensorApi
           \/ drag.phase # "idle"
           \/ isDragDisabled(lastOp'.index))
       =>
       (/\ drag' = drag
        /\ lastOp'.kind = "shiftOnly"
        /\ signers' = updateSigningOrders(signers, lastOp'.target - 1, lastOp'.index))]_vars

\* the sensor API is set and the surface is idle, and the edit of an entry
\* that is not draggable (its order value was 0) has shifted the order values
\* without a lift
C15_Witness ==
    /\ lastOp.op = "edit" /\ lastOp.kind = "shiftOnly"
    /\ sensorApi
    /\ drag = Idle
    /\ Item(signers, lastOp.index).signingOrder = lastOp.target
    /\ lastOp.target # lastOp.index + 1

Distance(f, t) == IF f < t THEN t - f ELSE f - t

(* C16: a replay from position f to position t that has the lock issues    *)
(* exactly |f - t| one-step moves, all of them towards t (down when f < t, *)
(* up when f > t), and then one drop; the drop comes after all the steps   *)
(* and no step comes after the drop.                                       *)
C16_StepsThenDrop ==
    [][/\ drag'.phase = "lifted" => drag'.moves = <<>>
       /\ lastOp'.op = "replayMove" =>
             /\ drag.phase = "lifted" /\ drag'.phase = "moved"
             /\ Len(drag'.moves) = Distance(drag.from, drag.to)
             /\ \A k \in 1..Len(drag'.moves) :
                   drag'.moves[k] = IF drag.from < drag.to THEN "moveDown" ELSE "moveUp"
       /\ lastOp'.op = "replayDrop" =>
             /\ drag.phase = "moved"
             /\ Len(drag.moves) = Distance(drag.from, drag.to)
             /\ drag' = Idle
       /\ drag'.moves # drag.moves => lastOp'.op \in {"replayMove", "replayDrop"}
       /\ (drag.phase = "moved" /\ drag' # drag) => lastOp'.op = "replayDrop"]_vars

\* the replay of an edit that sent the last of three entries to the front
\* has issued its two steps up and waits for its drop
C16_Witness ==
    /\ lastOp.op = "replayMove"
    /\ drag.phase = "moved"
    /\ drag.from = 2 /\ drag.to = 0
    /\ drag.moves = <<"moveUp", "moveUp">>

(* C17: a drag (of the user, or the drop of a replay) and a manual order   *)
(* edit neither destroy nor create entries: the list holds the same        *)
(* identities as before, each of them once.                                *)
C17_ReorderKeepsEntries ==
    [][(IsDragStep \/ IsEditStep) =>
          /\ Len(signers') = Len(signers)
          /\ FormIds(signers') = FormIds(signers)
          /\ Cardinality(FormIds(signers')) = Len(signers')]_vars

\* the drop of a replay has moved an entry of a list of three, one of them
\* locked, to another position
C17_Witness ==
    /\ lastOp.op = "replayDrop"
    /\ lastOp.index # lastOp.target
    /\ Len(signers) = 3
    /\ LockedIds(signers) # {}
    /\ Cardinality(FormIds(signers)) = 3

BlankPositions(s) == {i \in Indices(s) : Item(s, i).email = ""}

(* C19: add myself, when some entry has an empty name and an empty         *)
(* contact, fills the first such entry in place: the number of entries and *)
(* every entry's identity, list position and order value are unchanged;    *)
(* only when there is no such entry does it append a new entry as add does.*)
C19_AddSelfReusesBlank ==
    [][lastOp'.op = "addSelf" =>
          IF BlankPositions(signers) # {}
          THEN LET first == CHOOSE i \in BlankPositions(signers) :
                                \A j \in BlankPositions(signers) : i <= j
               IN  /\ Len(signers') = Len(signers)
                   /\ \A i \in Indices(signers) :
                         /\ Item(signers', i).formId = Item(signers, i).formId
                         /\ Item(signers', i).nativeId = Item(signers, i).nativeId
                         /\ Item(signers', i).signingOrder = Item(signers, i).signingOrder
                         /\ i # first => Item(signers', i) = Item(signers, i)
                   /\ Item(signers', first).email = "self"
          ELSE /\ Len(signers') = Len(signers) + 1
               /\ SubSeq(signers', 1, Len(signers)) = signers
               /\ LET new == signers'[Len(signers')]
                      added == appendSigner(signers, "")[Len(signers) + 1]
                  IN  /\ new.email = "self"
                      /\ new.formId \notin FormIds(signers)
                      /\ new.nativeId = added.nativeId
                      /\ new.signingOrder = added.signingOrder]_vars

\* add myself has filled a blank entry that is not the first of the list
C19_Witness ==
    /\ lastOp.op = "addSelf" /\ lastOp.kind = "fill"
    /\ lastOp.index >= 1
    /\ Len(signers) >= 2
    /\ Item(signers, lastOp.index).email = "self"
    /\ Item(signers, 0).email = "other"

(* C20: a drag that ends without a destination (dropped outside of every   *)
(* target) leaves the list as it was: same entries, same list positions,   *)
(* same order values.                                                      *)
C20_NoDestinationIsNoOp ==
    [][(lastOp'.op = "drag" /\ lastOp'.kind = "noDestination") =>
          signers' = signers]_vars

\* the second of several entries was dragged and dropped outside of the
\* list, whose order values do not follow the list positions
C20_Witness ==
    /\ lastOp.op = "drag" /\ lastOp.kind = "noDestination"
    /\ lastOp.index >= 1
    /\ Len(signers) >= 2
    /\ \E k \in 1..Len(signers) : signers[k].signingOrder # k

(* C21: a manual order edit of the entry at position p with a numeric      *)
(* target position t # p sets that entry's order to t + 1; adds 1 to the   *)
(* order of every unlocked entry at a position i with t <= i < p; sets the *)
(* order of every unlocked entry at a position i with p < i <= t to        *)
(* max(1, order - 1); leaves every locked entry and every entry outside    *)
(* these ranges with its order; and changes no entry's list position.      *)
C21_EditShiftsOrders ==
    [][EditShifted =>
          LET p == lastOp'.index
              t == lastOp'.target - 1
          IN  /\ t # p
              /\ Len(signers') = Len(signers)
              /\ \A i \in Indices(signers) :
                    LET before == Item(signers, i)
                        after == Item(signers', i)
                    IN  /\ after.formId = before.formId
                        /\ after.signingOrder =
                              IF i = p THEN t + 1
                              ELSE IF Locked(before) THEN before.signingOrder
                              ELSE IF t <= i /\ i < p THEN before.signingOrder + 1
                              ELSE IF p < i /\ i <= t
                                   THEN (IF before.signingOrder - 1 < 1
                                         THEN 1 ELSE before.signingOrder - 1)
                              ELSE before.signingOrder]_vars

\* the last of three entries was sent to the front by an edit: the first
\* entry went from 1 to 2 and the locked second one has kept its 2
C21_Witness ==
    /\ lastOp.op = "edit" /\ lastOp.kind \in {"shiftOnly", "shiftAndLift"}
    /\ lastOp.index = 2 /\ lastOp.target = 1
    /\ ops = 1
    /\ Len(signers) = 3
    /\ ~Locked(signers[1]) /\ Locked(signers[2])
    /\ [k \in 1..3 |-> signers[k].signingOrder] = <<2, 2, 1>>

(* C22: in a drag, once the dragged entry is taken out of the list, the    *)
(* insertion index is the smallest index at or after the destination whose *)
(* entry in the remaining list is unlocked, or the length of the remaining *)
(* list when there is none; so the entry directly after the dragged one in *)
(* the result is never locked and the dragged entry is never placed before *)
(* its destination position.                                               *)
C22_InsertionSlidesPastLocked ==
    [][(lastOp'.op = "drag" /\ lastOp'.kind = "dropped") =>
          LET s == lastOp'.index
              d == lastOp'.target
              dragged == Item(signers, s).formId
              remaining == [k \in 1..(Len(signers) - 1) |->
                               IF k <= s THEN signers[k] ELSE signers[k + 1]]
              free == {i \in d..(Len(remaining) - 1) : ~Locked(Item(remaining, i))}
              expected == IF free = {} THEN Len(remaining)
                          ELSE CHOOSE i \in free : \A j \in free : i <= j
              at == PositionOf(signers', dragged)
          IN  /\ at = expected
              /\ at >= d
              /\ at + 1 < Len(signers') => ~Locked(Item(signers', at + 1))
              /\ \A i \in Indices(remaining) :
                    Item(signers', IF i < at THEN i ELSE i + 1).formId
                        = Item(remaining, i).formId]_vars

\* the first of three entries was dropped on position 0, where the remaining
\* list has a locked entry: it was inserted behind it, before an unlocked one
C22_Witness ==
    /\ lastOp = Op("drag", 0, 0, "dropped")
    /\ ops = 1
    /\ Len(signers) = 3
    /\ Locked(signers[1]) /\ ~Locked(signers[2]) /\ ~Locked(signers[3])
    /\ signers[2].signingOrder = 2 /\ signers[3].signingOrder = 3
    /\ signers[1].signingOrder = 2

\* no entry of s is locked and every order value is the list position plus one
UnlockedAndAligned(s) ==
    /\ LockedIds(s) = {}
    /\ \A k \in 1..Len(s) : s[k].signingOrder = k

\* s and r give every identity the same order value
SameOrders(s, r) ==
    /\ FormIds(s) = FormIds(r)
    /\ \A id \in FormIds(s) : OrderOf(s, id) = OrderOf(r, id)

(* C23: in a list without locked entries whose order values are the list   *)
(* positions plus one, a manual order edit of the entry at position p with *)
(* typed value t + 1 (0 <= t < N, t # p) and a drag of that entry from p   *)
(* to destination t give every identity the same order value.              *)
C23_EditAgreesWithDrag ==
    [][/\ (/\ EditShifted
           /\ UnlockedAndAligned(signers)
           /\ lastOp'.target - 1 \in Indices(signers))
          => SameOrders(signers',
                        reorderedSigners(signers, lastOp'.index, lastOp'.target - 1))
       /\ (/\ lastOp'.op = "drag" /\ lastOp'.kind = "dropped"
           /\ UnlockedAndAligned(signers)
           /\ lastOp'.target # lastOp'.index)
          => SameOrders(signers',
                        updateSigningOrders(signers, lastOp'.target, lastOp'.index))]_vars

\* in three unlocked entries numbered 1, 2, 3 the first one was given the
\* typed order 3: the orders are those of a drag from position 0 to 2
C23_Witness ==
    /\ lastOp.op = "edit" /\ lastOp.kind \in {"shiftOnly", "shiftAndLift"}
    /\ lastOp.index = 0 /\ lastOp.target = 3
    /\ ops = 1
    /\ LockedIds(signers) = {}
    /\ [k \in 1..Len(signers) |-> signers[k].signingOrder] = <<3, 1, 2>>

(* C24: the list is never empty: it starts with at least one entry and     *)
(* after any sequence of add, add myself, remove, drag and manual order    *)
(* edit it holds at least one, removal not being offered on a single       *)
(* entry.                                                                  *)
C24_NeverEmpty == Len(signers) >= 1

\* two removals have taken a list of three entries down to a single entry
C24_Witness ==
    /\ lastOp.op = "remove" /\ lastOp.kind = "removed"
    /\ ops = 2
    /\ Len(signers) = 1
    /\ Cardinality(recipientIds) = 3

=============================================================================
